---- MODULE Spec2Model ----
(***************************************************************************)
(* PhysiologyEngine of hypothermia_sim.py: six skin segments and one core  *)
(* temperature, advanced one simulated minute per run_step call.           *)
(*                                                                         *)
(* The program computes in floating point.  Here every real quantity is an *)
(* integer count of a fixed unit, and every product or quotient is the     *)
(* exact rational value rounded down to that unit:                         *)
(*   temperatures        1/TScale degC      powers          1/WScale W     *)
(*   hypoxia factor      1/HScale           vaso response   1/VScale       *)
(*   insulation          1/RScale m2K/W     wind            1/10 km/h      *)
(*   mass 1/10 kg, area 1/100 m2, vaso and solar_w 1/10, METs and Clo 1/10 *)
(* Against the floating-point program the skin and core temperatures at    *)
(* the end of the 120 step preset and dry/wet runs differ by under 0.02    *)
(* degC.                                                                   *)
(***************************************************************************)
EXTENDS Integers, Sequences, FiniteSets, TLC

VARIABLES
    state,          \* self.state: segment name -> [temp, hist]
    core_temp,      \* self.core_temp
    history_core,   \* self.history_core
    env,            \* env argument: [temp, wind, altitude, solar_rad]
    climber,        \* climber argument: [target_met, clo, is_wet, o2_support]
    pc,             \* position: "idle" (between calls), "loop" (line 108),
                    \* "core" (line 151), "raised" (ZeroDivisionError propagated)
    idx,            \* index in SegOrder of the next loop iteration
    locals,         \* run_step's locals set before the loop, and total_blood_cooling
    body,           \* the loop body's locals, per segment already iterated in this call
    metrics_log,    \* the reports returned so far, in call order
    dry_core        \* final core temperature of the finished dry run (0: none)

vars == <<state, core_temp, history_core, env, climber, pc, idx, locals, body,
          metrics_log, dry_core>>

----------------------------------------------------------------------------
(* Units *)

TScale == 10000
WScale == 1000
HScale == 7500
VScale == 1000000
RScale == 10000000

(* Model bound: run_step calls per run of Spec *)

MaxSteps == 3

----------------------------------------------------------------------------
(* Arithmetic on scaled integers *)

Min(a, b) == IF a < b THEN a ELSE b

Last(s) == s[Len(s)]

RECURSIVE MulDivRem(_, _, _)
\* <<floor(a*b/c), (a*b) mod c>> for b >= 0 and c > 0, without an intermediate
\* product larger than 32*c.
MulDivRem(a, b, c) ==
    IF b = 0 THEN <<0, 0>>
    ELSE LET h == MulDivRem(a, b \div 16, c)
             d == b % 16
             t == h[2] * 16 + (a % c) * d
         IN  <<h[1] * 16 + (a \div c) * d + t \div c, t % c>>

\* floor(a*b/c) for c # 0: the float expression a * b / c at the result's unit.
MulDiv(a, b, c) ==
    LET a1 == IF c < 0 THEN -a ELSE a
        c1 == IF c < 0 THEN -c ELSE c
        a2 == IF b < 0 THEN -a1 ELSE a1
        b2 == IF b < 0 THEN -b ELSE b
    IN  MulDivRem(a2, b2, c1)[1]

----------------------------------------------------------------------------
(* PhysiologyEngine.__init__ *)

SegOrder == <<"Head", "Trunk", "Arms", "Hands", "Legs", "Feet">>

SegNames == {SegOrder[i] : i \in 1..Len(SegOrder)}

\* mass 1/10 kg, area 1/100 m2, vaso 1/10, solar_w 1/10
segments ==
    [Head  |-> [mass |-> 45,  area |-> 14, vaso |-> 2,  solar_w |-> 3],
     Trunk |-> [mass |-> 300, area |-> 55, vaso |-> 1,  solar_w |-> 5],
     Arms  |-> [mass |-> 40,  area |-> 26, vaso |-> 8,  solar_w |-> 2],
     Hands |-> [mass |-> 4,   area |-> 8,  vaso |-> 30, solar_w |-> 0],
     Legs  |-> [mass |-> 120, area |-> 60, vaso |-> 8,  solar_w |-> 4],
     Feet  |-> [mass |-> 10,  area |-> 14, vaso |-> 30, solar_w |-> 0]]

InitSkin == 33 * TScale

InitCore == 37 * TScale

NewEngineState == [n \in SegNames |-> [temp |-> InitSkin, hist |-> <<InitSkin>>]]

----------------------------------------------------------------------------
(* Environmental model *)

\* 1013.25 * (1 - 2.25577e-5 * altitude_m) ** 5.25588 in 1/10 hPa, tabulated
\* at the altitudes the scenarios below use (the exponent is not an integer).
calc_altitude_pressure(altitude_m) ==
    CASE altitude_m = 0    -> 10132
      [] altitude_m = 1600 -> 8352
      [] altitude_m = 5000 -> 5401
      [] altitude_m = 8500 -> 3309
      [] altitude_m = 8848 -> 3144
      [] altitude_m = 9000 -> 3074

effective_alt(altitude_m, has_o2_support) ==
    LET e == IF has_o2_support THEN altitude_m - 3000 ELSE altitude_m
    IN  IF e < 0 THEN 0 ELSE e

hypoxia_no_floor(eff) ==
    IF eff > 1500 THEN HScale - MulDiv(eff - 1500, HScale, 7500) ELSE HScale

\* hypoxia_factor of calc_max_metabolism, in 1/HScale
hypoxia_factor(eff) ==
    LET h == IF eff > 1500 THEN HScale - MulDiv(eff - 1500, HScale, 7500)
                           ELSE HScale
    IN  IF 5 * h < HScale THEN HScale \div 5 ELSE h

\* <<max_met_w, hypoxia_factor>>
calc_max_metabolism(altitude_m, has_o2_support) ==
    LET h == hypoxia_factor(effective_alt(altitude_m, has_o2_support))
    IN  <<MulDiv(1000 * WScale, h, HScale), h>>

----------------------------------------------------------------------------
(* run_step: the values computed before the loop *)

target_w(c) == c.target_met * 8 * WScale

real_m_of(tw, max_met) == Min(tw, max_met)

\* 0.0015 * real_m * (37 - temp) * (1 + altitude / 3000)
q_res_of(real_m, e) ==
    MulDiv(real_m * (37 - e.temp), 15 * (3000 + e.altitude), 10000 * 3000)

\* v_eff in 1/10 km/h
v_eff_of(wind) == IF wind >= 5 THEN wind * 6 ELSE wind * 10

----------------------------------------------------------------------------
(* run_step: the loop body *)

q_solar_of(e, seg) == (e.solar_rad * seg.area * seg.solar_w * 4) \div 10

real_clo_ignoring_wet(c, name) ==
    c.clo * 100 * (IF name \in {"Head", "Hands"} THEN 3 ELSE 10)

\* real_clo in 1/10000 Clo
real_clo_of(c, name) ==
    c.clo * (IF c.is_wet THEN 35 ELSE 100)
          * (IF name \in {"Head", "Hands"} THEN 3 ELSE 10)

\* 1 + 0.5 * v_eff, in 1/20
wind_den(v_eff) == 20 + v_eff

\* 0.155 * real_clo + 0.1 / (1 + 0.5 * v_eff), for wind_den(v_eff) # 0
r_insulation_of(real_clo, v_eff) ==
    155 * real_clo + MulDiv(2 * RScale, 1, wind_den(v_eff))

\* The divisions of lines 122 and 123 raise ZeroDivisionError on a zero divisor.
raises(c, name, v_eff) ==
    \/ wind_den(v_eff) = 0
    \/ r_insulation_of(real_clo_of(c, name), v_eff) = 0

\* area * (current_skin - temp) / r_insulation
q_conv_of(seg, current_skin, ambient, r_insulation) ==
    MulDiv(seg.area * (current_skin - ambient),
           ((RScale \div TScale) * WScale) \div 100, r_insulation)

vaso_inverted(vaso_factor, core) ==
    IF core < 368 * (TScale \div 10)
    THEN MulDiv(VScale, TScale * vaso_factor,
                TScale * vaso_factor + 100 * (368 * (TScale \div 10) - core))
    ELSE VScale

\* vaso: 1.0 / (1.0 + seg['vaso'] * delta * 10.0) below 36.8, else 1.0
vaso_of(vaso_factor, core) ==
    IF core < 368 * (TScale \div 10)
    THEN MulDiv(VScale, TScale,
                TScale + vaso_factor * (368 * (TScale \div 10) - core))
    ELSE VScale

\* 18.0 * mass * vaso * (core - current_skin) / 60.0
q_blood_of(seg, vaso, core, current_skin) ==
    MulDiv(MulDiv(3 * seg.mass * (core - current_skin), vaso, VScale),
           WScale, 100 * TScale)

q_local_met_of(name, real_m) ==
    (real_m * (IF name \in {"Trunk", "Legs"} THEN 35 ELSE 10)) \div 100

\* dt = net_joules / (mass * 3470), net_joules = net * 60
skin_dt(net, seg) == MulDiv(net * 60, (10 * TScale) \div WScale, seg.mass * 3470)

new_temp_unclamped(current_skin, dt, ambient) == current_skin + dt

new_temp_of(current_skin, dt, ambient) ==
    IF current_skin + dt < ambient THEN ambient ELSE current_skin + dt

\* The locals of one iteration, from the skin and core temperatures it reads.
iteration(name, current_skin, core, e, c, l) ==
    LET seg   == segments[name]
        amb   == e.temp * TScale
        r     == r_insulation_of(real_clo_of(c, name), l.v_eff)
        vaso  == vaso_of(seg.vaso, core)
        qb    == q_blood_of(seg, vaso, core, current_skin)
        qm    == q_local_met_of(name, l.real_m)
        net   == qm + qb + q_solar_of(e, seg)
                    - q_conv_of(seg, current_skin, amb, r)
        dt    == skin_dt(net, seg)
    IN  [current_skin |-> current_skin, core |-> core, vaso |-> vaso,
         q_blood |-> qb, q_local_met |-> qm, dt |-> dt,
         new_temp |-> new_temp_of(current_skin, dt, amb)]

----------------------------------------------------------------------------
(* run_step: the core update and the report *)

core_net_plus_res(real_m, q_res, total_blood_cooling) ==
    real_m + q_res + total_blood_cooling

\* real_m - q_res + total_blood_cooling
core_net_of(real_m, q_res, total_blood_cooling) ==
    real_m - q_res + total_blood_cooling

\* core_dt = core_net_joules / (core_mass * 3470), core_mass = 50.0
core_dt(net) == MulDiv(net * 60, TScale \div WScale, 50 * 3470)

\* if self.core_temp < 36.5: self.core_temp += 0.001 * hypoxia
shiver(core, hypoxia) ==
    IF core < 365 * (TScale \div 10)
    THEN core + MulDiv(hypoxia, TScale, 1000 * HScale)
    ELSE core

report_uncapped(l) ==
    [ap |-> l.ap, real_m |-> l.target_w, q_res |-> l.q_res, hypoxia |-> l.hypoxia]

report_of(l) ==
    [ap |-> l.ap, real_m |-> l.real_m, q_res |-> l.q_res, hypoxia |-> l.hypoxia]

----------------------------------------------------------------------------
(* The arguments of run_step *)

Env(t, s) ==
    [temp |-> t, wind |-> s.wind, altitude |-> s.altitude, solar_rad |-> s.solar_rad]

Climber(s) ==
    [target_met |-> s.target_met, clo |-> s.clo, is_wet |-> s.is_wet,
     o2_support |-> s.o2_support]

Params(w, a, r, m, c, wet, o2) ==
    [wind |-> w, altitude |-> a, solar_rad |-> r, target_met |-> m, clo |-> c,
     is_wet |-> wet, o2_support |-> o2]

\* The sidebar's defaults and presets (temp, then the other parameters).
CustomDefault  == <<-10, Params(20, 5000, 800,  30, 15, FALSE, FALSE)>>
SpringSummit   == <<-26, Params(16, 8848, 1000, 60, 35, FALSE, TRUE)>>
WinterSummit   == <<-36, Params(36, 8848, 600,  60, 40, FALSE, TRUE)>>
EmergencyBivouac == <<-30, Params(25, 8500, 0,  10, 35, FALSE, FALSE)>>

Presets == {CustomDefault, SpringSummit, WinterSummit, EmergencyBivouac}

\* Arguments a caller of run_step may pass: the presets' parameters, a wet
\* climber, and values outside the sliders' ranges (no insulation, negative
\* insulation, negative wind).
Scenarios ==
    {p[2] : p \in Presets} \cup
    {Params(20,  5000, 800, 100, 15, TRUE,  FALSE),
     Params(100, 0,    0,   10,   0, FALSE, TRUE),
     Params(-10, 1600, 0,   100, -10, FALSE, FALSE),
     Params(100, 9000, 0,   100,  5, TRUE,  TRUE),
     Params(-2,  0,    0,   10,  15, FALSE, FALSE)}

\* Ambient temperatures of a run, none above the initial skin temperature.
Temps == {-30, 20, 33}

----------------------------------------------------------------------------
(* Actions *)

NoLocals ==
    [ap |-> 0, max_met |-> 0, hypoxia |-> 0, target_w |-> 0, real_m |-> 0,
     q_res |-> 0, v_eff |-> 0, total_blood_cooling |-> 0]

NoBody == [n \in {} |-> 0]

\* Lines 87-106: run_step(e, c) is entered and reaches the loop.
run_step_begin(e, c) ==
    /\ pc = "idle"
    /\ LET mm == calc_max_metabolism(e.altitude, c.o2_support)
           tw == target_w(c)
           rm == real_m_of(tw, mm[1])
       IN  locals' = [ap |-> calc_altitude_pressure(e.altitude),
                      max_met |-> mm[1], hypoxia |-> mm[2], target_w |-> tw,
                      real_m |-> rm, q_res |-> q_res_of(rm, e),
                      v_eff |-> v_eff_of(e.wind), total_blood_cooling |-> 0]
    /\ env' = e
    /\ climber' = c
    /\ body' = NoBody
    /\ idx' = 1
    /\ pc' = "loop"
    /\ UNCHANGED <<state, core_temp, history_core, metrics_log, dry_core>>

\* Lines 108-149: one iteration of the loop over self.segments.
segment_effect ==
    /\ pc = "loop"
    /\ LET name == SegOrder[idx]
       IN  IF raises(climber, name, locals.v_eff)
           THEN /\ pc' = "raised"
                /\ UNCHANGED <<state, locals, body, idx>>
           ELSE LET it == iteration(name, state[name].temp, core_temp, env,
                                    climber, locals)
                IN  /\ state' = [state EXCEPT
                                   ![name] = [temp |-> it.new_temp,
                                              hist |-> Append(@.hist, it.new_temp)]]
                    /\ locals' = [locals EXCEPT
                                    !.total_blood_cooling = @ - it.q_blood]
                    /\ body' = body @@ (name :> it)
                    /\ idx' = idx + 1
                    /\ pc' = IF idx = Len(SegOrder) THEN "core" ELSE "loop"
    /\ UNCHANGED <<env, climber, history_core, metrics_log, dry_core>>

run_step_segment_early_core ==
    /\ segment_effect
    /\ core_temp' = IF pc' = "raised" THEN core_temp
                    ELSE core_temp + core_dt(locals'.total_blood_cooling
                                             - locals.total_blood_cooling)

run_step_segment ==
    /\ segment_effect
    /\ core_temp' = core_temp

\* Lines 151-169: the core update, the history sample and the returned report.
run_step_core ==
    /\ pc = "core"
    /\ LET net == core_net_of(locals.real_m, locals.q_res,
                              locals.total_blood_cooling)
           c1  == shiver(core_temp + core_dt(net), locals.hypoxia)
       IN  /\ core_temp' = c1
           /\ history_core' = Append(history_core, c1)
    /\ metrics_log' = Append(metrics_log, report_of(locals))
    /\ pc' = "idle"
    /\ UNCHANGED <<state, env, climber, idx, locals, body, dry_core>>

----------------------------------------------------------------------------
(* Any caller: a fresh engine, then run_step calls with a fixed ambient      *)
(* temperature and any of the other arguments at each call.                 *)

Init ==
    /\ state = NewEngineState
    /\ core_temp = InitCore
    /\ history_core = <<InitCore>>
    /\ \E t \in Temps : \E s \in Scenarios :
          env = Env(t, s) /\ climber = Climber(s)
    /\ pc = "idle"
    /\ idx = 1
    /\ locals = NoLocals
    /\ body = NoBody
    /\ metrics_log = <<>>
    /\ dry_core = 0

Call ==
    /\ Len(metrics_log) < MaxSteps
    /\ \E s \in Scenarios : run_step_begin(Env(env.temp, s), Climber(s))

Next == Call \/ run_step_segment \/ run_step_core

Spec == Init /\ [][Next]_vars

----------------------------------------------------------------------------
(* The script's run (lines 270-279): one engine, duration calls with the     *)
(* arguments built once from the sidebar.                                   *)

duration == 120

simulation_loop ==
    /\ Len(metrics_log) < duration
    /\ run_step_begin(env, climber)

InitRun ==
    /\ state = NewEngineState
    /\ core_temp = InitCore
    /\ history_core = <<InitCore>>
    /\ \E p \in Presets : env = Env(p[1], p[2]) /\ climber = Climber(p[2])
    /\ pc = "idle"
    /\ idx = 1
    /\ locals = NoLocals
    /\ body = NoBody
    /\ metrics_log = <<>>
    /\ dry_core = 0

NextRun == simulation_loop \/ run_step_segment \/ run_step_core

SpecRun == InitRun /\ [][NextRun]_vars

----------------------------------------------------------------------------
(* Two runs of the script with the same sidebar values, the first dry and    *)
(* the second, on a fresh engine, with the Wet box ticked.                  *)

PairAltitudes == {0, 5000, 8500}

PairSolar == {0, 800}

InitPair ==
    /\ state = NewEngineState
    /\ core_temp = InitCore
    /\ history_core = <<InitCore>>
    /\ \E a \in PairAltitudes : \E r \in PairSolar : \E o2 \in BOOLEAN :
          LET s == Params(20, a, r, 10, 15, FALSE, o2)
          IN  env = Env(-10, s) /\ climber = Climber(s)
    /\ pc = "idle"
    /\ idx = 1
    /\ locals = NoLocals
    /\ body = NoBody
    /\ metrics_log = <<>>
    /\ dry_core = 0

wet_rerun ==
    /\ pc = "idle"
    /\ Len(metrics_log) = duration
    /\ ~climber.is_wet
    /\ dry_core' = core_temp
    /\ state' = NewEngineState
    /\ core_temp' = InitCore
    /\ history_core' = <<InitCore>>
    /\ climber' = [climber EXCEPT !.is_wet = TRUE]
    /\ metrics_log' = <<>>
    /\ locals' = NoLocals
    /\ body' = NoBody
    /\ idx' = 1
    /\ UNCHANGED <<env, pc>>

NextPair == simulation_loop \/ run_step_segment \/ run_step_core \/ wet_rerun

SpecPair == InitPair /\ [][NextPair]_vars

----------------------------------------------------------------------------
(* Properties *)

Max(a, b) == IF a > b THEN a ELSE b

Ambient == env.temp * TScale

\* A call has returned and no other has begun.
Returned == pc = "idle" /\ metrics_log # <<>>

\* The sum of F over the six segments.
SumSegments(F(_)) ==
    F("Head") + F("Trunk") + F("Arms") + F("Hands") + F("Legs") + F("Feet")

\* C1: with a fixed ambient temperature not above the initial skin
\* temperature, every segment's current skin temperature and every sample of
\* its history is at or above the ambient temperature, whatever the other
\* arguments of the calls were.
C1_SkinFloor ==
    \A n \in SegNames :
        /\ state[n].temp >= Ambient
        /\ \A i \in 1..Len(state[n].hist) : state[n].hist[i] >= Ambient

\* C1 witness: a segment whose update fell below ambient was set to ambient.
C1_Clamped ==
    \E n \in DOMAIN body :
        /\ body[n].current_skin + body[n].dt < Ambient
        /\ state[n].temp = Ambient
        /\ Last(state[n].hist) = Ambient

\* C2 as claimed: the returned report holds the post-step core temperature.
C2_ReportHasCore ==
    Returned =>
        /\ "core_temp" \in DOMAIN Last(metrics_log)
        /\ Last(metrics_log).core_temp = core_temp

\* C2 as amended: the returned report holds exactly the air pressure, the
\* realized metabolism, the respiratory loss and the hypoxia factor of the
\* call; the post-step core temperature is not in it, it is the engine's
\* core_temp, which is the last sample of history_core.
C2_Report ==
    Returned =>
        LET m  == Last(metrics_log)
            mm == calc_max_metabolism(env.altitude, climber.o2_support)
        IN  /\ DOMAIN m = {"ap", "real_m", "q_res", "hypoxia"}
            /\ m.ap = calc_altitude_pressure(env.altitude)
            /\ m.real_m = Min(climber.target_met * 8 * WScale, mm[1])
            /\ m.q_res = q_res_of(m.real_m, env)
            /\ m.hypoxia = mm[2]
            /\ core_temp = Last(history_core)

\* C2 witness: a call returned a report whose realized metabolism is capped.
C2_Reported ==
    /\ Returned
    /\ Last(metrics_log).real_m < climber.target_met * 8 * WScale
    /\ core_temp # InitCore

\* C3 as claimed: every run_step call made so far (returned or not) has added
\* exactly one sample to each of the seven histories, and each history ends
\* with the current temperature.
C3_OneSamplePerCall ==
    pc \in {"idle", "raised"} =>
        LET calls == Len(metrics_log) + (IF pc = "raised" THEN 1 ELSE 0)
        IN  /\ Len(history_core) = 1 + calls
            /\ Last(history_core) = core_temp
            /\ \A n \in SegNames :
                  /\ Len(state[n].hist) = 1 + calls
                  /\ Last(state[n].hist) = state[n].temp

\* C4: the hypoxia factor is 1 up to 1500 m effective altitude, declines
\* linearly above it and is never below 0.2; the realized metabolism is the
\* smaller of target_met * 80 and 1000 * factor, so strictly less than the
\* request when the request exceeds the ceiling; and the ceiling with oxygen
\* support is at least the ceiling without it at the same altitude.
C4_HypoxiaCeiling ==
    pc = "loop" =>
        LET eff == IF climber.o2_support THEN Max(env.altitude - 3000, 0)
                                         ELSE env.altitude
            h   == locals.hypoxia
            req == climber.target_met * 8 * WScale
        IN  /\ 5 * h >= HScale /\ h <= HScale
            /\ eff <= 1500 => h = HScale
            /\ eff > 1500 =>
                  h = Max(HScale - ((eff - 1500) * HScale) \div 7500, HScale \div 5)
            /\ locals.max_met = MulDiv(1000 * WScale, h, HScale)
            /\ locals.real_m = Min(req, locals.max_met)
            /\ req > locals.max_met => locals.real_m < req
            /\ calc_max_metabolism(env.altitude, TRUE)[1]
                  >= calc_max_metabolism(env.altitude, FALSE)[1]

\* C4 witness: above the onset altitude without oxygen, the request exceeds
\* the ceiling, the realized metabolism is below it, and oxygen would raise
\* the ceiling.
C4_Capped ==
    /\ pc = "loop"
    /\ ~climber.o2_support
    /\ env.altitude > 1500
    /\ locals.real_m < climber.target_met * 8 * WScale
    /\ calc_max_metabolism(env.altitude, TRUE)[1] > locals.max_met

\* C5 as claimed: no argument values make run_step raise.
C5_NeverRaises == pc # "raised"

\* C6: the vaso responses computed in a step lie in (0, 1]; they are exactly
\* 1 when the core temperature read is at least 36.8; below 36.8 the segment
\* with the greater vaso factor has the smaller or equal response.
C6_VasoOrdering ==
    \A a \in DOMAIN body : \A b \in DOMAIN body :
        /\ body[a].vaso > 0 /\ body[a].vaso <= VScale
        /\ body[a].core >= 368 * (TScale \div 10) => body[a].vaso = VScale
        /\ (/\ body[a].core < 368 * (TScale \div 10)
            /\ segments[a].vaso > segments[b].vaso)
              => body[a].vaso <= body[b].vaso

\* C6 witness: below 36.8 the hands' response is strictly below the trunk's.
C6_Constricted ==
    /\ {"Hands", "Trunk"} \subseteq DOMAIN body
    /\ body["Hands"].core < 368 * (TScale \div 10)
    /\ body["Hands"].vaso < body["Trunk"].vaso
    /\ body["Trunk"].vaso < VScale

\* C7: after 120 steps at ambient -10, wind 20, METs 1.0, Clo 1.5, the wet
\* run's final core temperature is strictly below the dry run's, for the same
\* altitude, solar irradiance and oxygen flag.
C7_WetLowersCore ==
    (climber.is_wet /\ pc = "idle" /\ Len(metrics_log) = duration)
        => core_temp < dry_core

\* C7 witness: both runs are finished.
C7_BothRunsDone ==
    /\ climber.is_wet /\ pc = "idle" /\ Len(metrics_log) = duration
    /\ Len(history_core) = duration + 1
    /\ dry_core # 0

IsBivouac ==
    /\ env = Env(EmergencyBivouac[1], EmergencyBivouac[2])
    /\ climber = Climber(EmergencyBivouac[2])

\* C8: in the emergency-bivouac run every core-history sample is strictly
\* below the sample before it.
C8_BivouacCoreFalls ==
    IsBivouac =>
        \A i \in 2..Len(history_core) : history_core[i] < history_core[i - 1]

\* C8 witness: the bivouac run has made all its 120 steps.
C8_BivouacDone ==
    IsBivouac /\ pc = "idle" /\ Len(history_core) = duration + 1

\* The samples a call started from: those at the end of the previous call.
PrevIndex == IF pc = "idle" /\ body # NoBody THEN Len(metrics_log)
             ELSE Len(metrics_log) + 1

C9_Reads ==
    \A n \in DOMAIN body :
        /\ body[n].core = history_core[PrevIndex]
        /\ body[n].current_skin = state[n].hist[PrevIndex]

C9_Writes ==
    /\ pc = "loop" => core_temp' = core_temp
    /\ core_temp' # core_temp =>
          /\ pc = "core"
          /\ DOMAIN body = SegNames
          /\ \A n \in SegNames : Len(state[n].hist) = Len(history_core) + 1

\* C9: every segment update of a call reads the core temperature the
\* previous call left and its own skin temperature of the previous call; the
\* core temperature does not change during the loop, and changes only in the
\* core update of run_step, after all six segments were updated and sampled.
C9_TwoPhase == []C9_Reads /\ [][C9_Writes]_vars

\* C9 witness: all six segments are updated and sampled, the core is not yet.
C9_SegmentsDoneCorePending ==
    /\ pc = "core"
    /\ DOMAIN body = SegNames
    /\ core_temp = Last(history_core)
    /\ \A n \in SegNames :
          /\ Len(state[n].hist) = Len(history_core) + 1
          /\ state[n].temp # body[n].current_skin

QLocalMet(n) == body[n].q_local_met

MinusQBlood(n) == 0 - body[n].q_blood

\* C10 as claimed: the core changes by (total_metabolic - q_res +
\* total_blood_cooling) * 60 / (50 * 3470), then by the shivering increment,
\* where total_metabolic is the sum of the six per-segment shares q_local_met
\* and total_blood_cooling the sum of minus the six q_blood.
C10_MetabolicIsSumOfShares ==
    Returned =>
        Last(history_core) =
            shiver(history_core[Len(history_core) - 1]
                     + core_dt(SumSegments(QLocalMet) - locals.q_res
                                 + SumSegments(MinusQBlood)),
                   locals.hypoxia)

====
